---- MODULE Spec2Model ----
(***************************************************************************)
(* Shader tool chain of scripts/10_validate_shader.py and                  *)
(* scripts/ubo_audit.py: the #include resolver (preprocess_shader) as a    *)
(* call-stack machine and as a recursive function, and validate() with its *)
(* temporary file, its verdict and its error-context window.               *)
(*                                                                         *)
(* Text is a sequence of tokens: a token stands for a run of characters    *)
(* ("#include", a path component, a blank, a quote, the newline).          *)
(***************************************************************************)
EXTENDS Integers, Sequences, FiniteSets, TLC

\* ------------------------------------------------------------------ bounds
MaxTotalLines == 3   \* line segments in the whole file system (Spec)
MaxLiveLines == 2    \* line segments in the whole file system (FairSpec)
MaxTextLines == 2    \* lines of the file of assorted lines (Spec)
MaxDepth == 4        \* interpreter recursion limit, scaled down
MaxSrcLines == 3     \* lines of the shader validate() is given (SpecV)
MaxDiag == 2         \* lines the validator prints (SpecV)
MaxBody == 4         \* body lines of the block with slot comments (SpecU)
MaxSection == 5      \* body lines of the block with section headers (SpecU)
MaxPieces == 3       \* pieces of the text given to extract_uniforms (SpecX)
MaxStruct == 5       \* lines of the text with several blocks (SpecU)

\* ------------------------------------------------------------------ tokens
LF == "\n"
Q == "\""
Ws == {" ", LF}

StartTok == "// >>> INCLUDE START: "
EndTok == "// <<< INCLUDE END: "
CircularTok == "// SKIPPED CIRCULAR INCLUDE: "
NotFoundTok == "// ERROR: FILE NOT FOUND "

Files == {"a", "b", "c"}          \* regular files of the shader directory
Roots == {<<"a">>, <<"b">>, <<".">>}   \* paths handed to a top-level call

IncludeLine(rel) == <<"#include", " ", Q>> \o rel \o <<Q, LF>>

\* the lines a shader file is made of
GraphLines ==
  { <<"//", " ", "#include", " ", Q, "b", Q, LF>>,   \* directive inside a comment
    IncludeLine(<<"a">>), IncludeLine(<<"b">>), IncludeLine(<<"c">>),
    IncludeLine(<<"m">>),             \* no such file
    IncludeLine(<<".">>) }            \* the directory itself
LineSet == GraphLines

\* two spellings of one file
SpellingLines ==
  { IncludeLine(<<"b">>),
    <<" ">> \o IncludeLine(<<".", "b">>) }   \* indented, and ./b

\* lines that are no directive
TextLines ==
  { <<"x", LF>>,
    <<"y">>,                                           \* no newline: last line
    <<LF>>,                                            \* empty line
    <<"//", " ", "#include", " ", Q, "b", Q, LF>>,     \* inside a comment
    <<"#include", " ", "<", "b", ">", LF>>,            \* angle brackets
    <<"#include", Q, "b", Q, LF>> }                    \* no blank before the quote

\* ------------------------------------------------------------ pure helpers
RECURSIVE Join(_)
\* "".join(processed_lines)
Join(chunks) ==
  IF chunks = <<>> THEN <<>> ELSE Head(chunks) \o Join(Tail(chunks))

FirstIndex(s, from, T) ==
  IF \E i \in from..Len(s) : s[i] \in T
  THEN CHOOSE i \in from..Len(s) : s[i] \in T /\ \A j \in from..(i-1) : s[j] \notin T
  ELSE 0

RECURSIVE ReadLinesKeep(_)
\* f.readlines(): split after every newline, the newline kept
ReadLinesKeep(text) ==
  IF text = <<>> THEN <<>>
  ELSE LET nl == FirstIndex(text, 1, {LF})
       IN IF nl = 0 THEN <<text>>
          ELSE <<SubSeq(text, 1, nl)>> \o ReadLinesKeep(SubSeq(text, nl + 1, Len(text)))

RECURSIVE ReadLinesStrip(_)
\* as f.read().splitlines() would: the newline dropped
ReadLinesStrip(text) ==
  IF text = <<>> THEN <<>>
  ELSE LET nl == FirstIndex(text, 1, {LF})
       IN IF nl = 0 THEN <<text>>
          ELSE <<SubSeq(text, 1, nl - 1)>> \o ReadLinesStrip(SubSeq(text, nl + 1, Len(text)))

ReadLines(text) == ReadLinesKeep(text)

\* first position at or after i that is not white space (Len+1 if none)
SkipWs(line, i) ==
  IF \E j \in i..Len(line) : line[j] \notin Ws
  THEN CHOOSE j \in i..Len(line) : line[j] \notin Ws /\ \A k \in i..(j-1) : line[k] \in Ws
  ELSE Len(line) + 1

\* re.match(r'^\s*#include\s+"([^"]+)"', line): group 1, or <<>> if no match
MatchInclude(line) ==
  LET kw == SkipWs(line, 1)
      q1 == SkipWs(line, kw + 1)
      q2 == FirstIndex(line, q1 + 1, {Q})
  IN IF /\ kw <= Len(line) /\ line[kw] = "#include"
        /\ q1 > kw + 1 /\ q1 <= Len(line) /\ line[q1] = Q
        /\ q2 > q1 + 1
     THEN SubSeq(line, q1 + 1, q2 - 1)
     ELSE <<>>

\* paths are sequences of components
Dirname(p) == IF p = <<>> THEN <<>> ELSE SubSeq(p, 1, Len(p) - 1)
PathJoin(base, rel) == base \o rel
AbsPath(p) == SelectSeq(p, LAMBDA c : c # ".")

\* what open(path, 'r') meets
Kind(abs) ==
  IF abs = <<>> THEN "dir"
  ELSE IF Len(abs) = 1 /\ abs[1] \in Files THEN "file"
  ELSE "missing"

StartMarker(rel) == <<StartTok>> \o rel \o <<LF>>
EndMarker(rel) == <<EndTok>> \o rel \o <<LF>>
CircularSentinel(path) == <<CircularTok>> \o path \o <<LF>>
NotFoundSentinel(path) == <<NotFoundTok>> \o path \o <<LF>>

\* `if included_files is None: included_files = set()`
NewIncludedShared(previous) == previous
NewIncludedFiles(previous) == {}

\* `if abs_path in included_files`
InGuardNever(abs, inc) == FALSE
InGuard(abs, inc) == abs \in inc

\* ------------------------------------------------------------------- state
VARIABLES
  fs,          \* file name -> text of the file
  status,      \* "idle" | "running" | "returned" | "raised"
  exc,         \* exception that left the top-level call
  root,        \* file_path of the running / last top-level call
  previous,    \* file_path of the top-level call before it
  stack,       \* frames of preprocess_shader, innermost last
  included,    \* included_files
  out,         \* value returned by the top-level call
  edges        \* include directives processed in this call (history)

pvars == <<status, exc, root, previous, stack, included, out, edges>>

VARIABLES
  vpc,         \* position of validate(): "idle" | "written" | "try" | "returned" | "propagated"
  shader_path, \* argument of validate()
  full_source, \* flattened source
  tempExists,  \* temp_validated_shader.frag is on disk
  tempWritten, \* validate() has written it (history)
  returncode,  \* result.returncode
  stdout,      \* result.stdout
  success,     \* value validate() returns
  report,      \* context blocks printed, in order
  outcome,     \* how validate() was left
  vexc         \* exception that left validate()

vvars == <<vpc, shader_path, full_source, tempExists, tempWritten, returncode,
           stdout, success, report, outcome, vexc>>

\* parse_glsl_uniform_block (ubo_audit.py)
VARIABLES
  upc,               \* "idle", "loop", "returned"
  content,           \* the GLSL text given
  block_name,        \* the block asked for, "None" if none
  glsl_lines,        \* lines = content.split('\n')
  line_idx,          \* 1-based position of the loop `for i, line in enumerate(lines)`
  parameters,        \* the Parameter records appended so far
  current_section,
  current_slot,
  in_uniform_block,
  target_block,
  origin             \* history: the line each parameter was read from
uvars == <<upc, content, block_name, glsl_lines,
           line_idx, parameters, current_section,
           current_slot, in_uniform_block, target_block, origin>>

\* extract_uniforms (10_validate_shader.py)
VARIABLES
  xpc,               \* "idle", "flat", "blocks", "returned"
  source_code,       \* the text given
  uniforms,          \* the entries appended so far
  decls              \* history: the declarations source_code was written from
xvars == <<xpc, source_code, uniforms, decls>>

avars == <<uvars, xvars>>
vars == <<fs, pvars, vvars, avars>>

Frame(path, text) ==
  [file_path |-> path, lines |-> ReadLines(text), line_idx |-> 1, processed_lines |-> <<>>]

OnStack(abs) == \E k \in 1..Len(stack) : AbsPath(stack[k].file_path) = abs

\* entry of preprocess_shader(file_path, inc) called at nesting depth `depth`
Enter(path, inc, depth) ==
  LET abs == AbsPath(path)
  IN IF depth >= MaxDepth
     THEN [kind |-> "raise", exc |-> "RecursionError", ret |-> <<>>, inc |-> inc]
     ELSE IF InGuard(abs, inc)
     THEN [kind |-> "skipped", exc |-> "none", ret |-> CircularSentinel(path), inc |-> inc]
     ELSE IF Kind(abs) = "missing"
     THEN [kind |-> "missing", exc |-> "none", ret |-> NotFoundSentinel(path),
           inc |-> inc \cup {abs}]
     ELSE IF Kind(abs) = "dir"
     THEN [kind |-> "raise", exc |-> "IsADirectoryError", ret |-> <<>>,
           inc |-> inc \cup {abs}]
     ELSE [kind |-> "open", exc |-> "none", ret |-> <<>>, inc |-> inc \cup {abs}]

RECURSIVE Preprocess(_, _, _), ProcessLines(_, _, _, _)
\* preprocess_shader as a function: [exc, text, inc], inc the guard set it leaves
Preprocess(path, inc, depth) ==
  LET e == Enter(path, inc, depth)
  IN IF e.kind = "open"
     THEN ProcessLines(path, ReadLines(fs[AbsPath(path)[1]]), e.inc, depth)
     ELSE [exc |-> e.exc, text |-> e.ret, inc |-> e.inc]
\* its loop over the lines still to process
ProcessLines(path, lines, inc, depth) ==
  IF lines = <<>> THEN [exc |-> "none", text |-> <<>>, inc |-> inc]
  ELSE LET rel == MatchInclude(Head(lines))
       IN IF rel = <<>>
          THEN LET r == ProcessLines(path, Tail(lines), inc, depth)
               IN IF r.exc # "none" THEN r ELSE [r EXCEPT !.text = Head(lines) \o @]
          ELSE LET c == Preprocess(PathJoin(Dirname(path), rel), inc, depth + 1)
               IN IF c.exc # "none" THEN c
                  ELSE LET r == ProcessLines(path, Tail(lines), c.inc, depth)
                       IN IF r.exc # "none" THEN r
                          ELSE [r EXCEPT !.text =
                                  StartMarker(rel) \o c.text \o EndMarker(rel) \o @]

Top == stack[Len(stack)]
HasLine == Top.line_idx <= Len(Top.lines)
CurLine == Top.lines[Top.line_idx]
\* the directive on the current line with its callee's entry evaluated,
\* [rel, path, e]; no element if the line is no directive
CurCall ==
  {[rel |-> rel,
    path |-> PathJoin(Dirname(Top.file_path), rel),
    e |-> Enter(PathJoin(Dirname(Top.file_path), rel), included, Len(stack))] :
     rel \in {MatchInclude(CurLine)} \ {<<>>}}

Edge(c) ==
  [from |-> AbsPath(Top.file_path), idx |-> Top.line_idx, rel |-> c.rel,
   path |-> c.path, target |-> AbsPath(c.path), onStack |-> OnStack(AbsPath(c.path)),
   kind |-> c.e.kind, ret |-> c.e.ret]

SetTop(f) == [stack EXCEPT ![Len(stack)] = f]

\* ----------------------------------------------- preprocess_shader, stepwise
\* a top-level call preprocess_shader(r): entry of the function
TopCall(r) ==
  /\ status \in {"idle", "returned"}
  /\ \E e \in {Enter(r, NewIncludedFiles(included), 0)} :
        /\ root' = r
        /\ previous' = IF status = "returned" THEN root ELSE previous
        /\ included' = e.inc
        /\ edges' = {}
        /\ exc' = e.exc
        /\ status' = CASE e.kind = "open" -> "running"
                       [] e.kind = "raise" -> "raised"
                       [] OTHER -> "returned"
        /\ stack' = IF e.kind = "open" THEN <<Frame(r, fs[AbsPath(r)[1]])>> ELSE <<>>
        /\ out' = e.ret
  /\ UNCHANGED <<fs, vvars, avars>>

\* the loop body on a line that is no directive
PassLine ==
  /\ status = "running" /\ HasLine /\ MatchInclude(CurLine) = <<>>
  /\ stack' = SetTop([Top EXCEPT !.processed_lines = @ \o <<CurLine>>,
                                 !.line_idx = @ + 1])
  /\ UNCHANGED <<fs, status, exc, root, previous, included, out, edges, vvars, avars>>

\* as IncludeSkipped, the sentinel substituted without its marker pair
IncludeSkippedBare ==
  /\ status = "running" /\ HasLine
  /\ \E c \in CurCall :
        /\ c.e.kind = "skipped"
        /\ stack' = SetTop([Top EXCEPT !.processed_lines = @ \o <<c.e.ret>>,
                                       !.line_idx = @ + 1])
        /\ included' = c.e.inc
        /\ edges' = edges \cup {Edge(c)}
  /\ UNCHANGED <<fs, status, exc, root, previous, out, vvars, avars>>

\* a directive whose callee returns at once: guard hit
IncludeSkipped ==
  /\ status = "running" /\ HasLine
  /\ \E c \in CurCall :
        /\ c.e.kind = "skipped"
        /\ stack' = SetTop([Top EXCEPT
               !.processed_lines = @ \o <<StartMarker(c.rel), c.e.ret, EndMarker(c.rel)>>,
               !.line_idx = @ + 1])
        /\ included' = c.e.inc
        /\ edges' = edges \cup {Edge(c)}
  /\ UNCHANGED <<fs, status, exc, root, previous, out, vvars, avars>>

\* a directive whose callee returns at once: FileNotFoundError caught
IncludeMissing ==
  /\ status = "running" /\ HasLine
  /\ \E c \in CurCall :
        /\ c.e.kind = "missing"
        /\ stack' = SetTop([Top EXCEPT
               !.processed_lines = @ \o <<StartMarker(c.rel), c.e.ret, EndMarker(c.rel)>>,
               !.line_idx = @ + 1])
        /\ included' = c.e.inc
        /\ edges' = edges \cup {Edge(c)}
  /\ UNCHANGED <<fs, status, exc, root, previous, out, vvars, avars>>

\* a directive whose callee raises: the exception unwinds every frame
IncludeUnopenable ==
  /\ status = "running" /\ HasLine
  /\ \E c \in CurCall :
        /\ c.e.kind = "raise"
        /\ status' = "raised"
        /\ exc' = c.e.exc
        /\ stack' = <<>>
        /\ included' = c.e.inc
        /\ edges' = edges \cup {Edge(c)}
  /\ UNCHANGED <<fs, root, previous, out, vvars, avars>>

\* a directive whose callee opens its file and starts its own loop
IncludeDescend ==
  /\ status = "running" /\ HasLine
  /\ \E c \in CurCall :
        /\ c.e.kind = "open"
        /\ stack' = SetTop([Top EXCEPT !.processed_lines = @ \o <<StartMarker(c.rel)>>])
                      \o <<Frame(c.path, fs[AbsPath(c.path)[1]])>>
        /\ included' = c.e.inc
        /\ edges' = edges \cup {Edge(c)}
  /\ UNCHANGED <<fs, status, exc, root, previous, out, vvars, avars>>

\* end of the loop: return "".join(processed_lines) to the caller
Return ==
  /\ status = "running" /\ ~HasLine
  /\ LET result == Join(Top.processed_lines)
     IN IF Len(stack) = 1
        THEN /\ out' = result
             /\ status' = "returned"
             /\ stack' = <<>>
        ELSE LET caller == stack[Len(stack) - 1]
                 rel == MatchInclude(caller.lines[caller.line_idx])
             IN /\ stack' = [SubSeq(stack, 1, Len(stack) - 1) EXCEPT ![Len(stack) - 1] =
                               [caller EXCEPT
                                  !.processed_lines = @ \o <<result, EndMarker(rel)>>,
                                  !.line_idx = @ + 1]]
                /\ UNCHANGED <<out, status>>
  /\ UNCHANGED <<fs, exc, root, previous, included, edges, vvars, avars>>

Step ==
  \/ PassLine \/ IncludeSkipped \/ IncludeMissing
  \/ IncludeUnopenable \/ IncludeDescend \/ Return

\* ------------------------------------------------------ the file systems
RECURSIVE SeqsOf(_, _)
\* sequences of exactly n elements of S
SeqsOf(S, n) ==
  IF n = 0 THEN {<<>>} ELSE {<<x>> \o t : x \in S, t \in SeqsOf(S, n - 1)}

\* fs is a file system of at most `total` line segments drawn from L
FsInit(L, total) ==
  \E na \in 0..total : \E nb \in 0..(total - na) : \E nc \in 0..(total - na - nb) :
    \E sa \in SeqsOf(L, na) : \E sb \in SeqsOf(L, nb) : \E sc \in SeqsOf(L, nc) :
      fs = [f \in Files |-> CASE f = "a" -> Join(sa) [] f = "b" -> Join(sb)
                               [] OTHER -> Join(sc)]

PInit ==
  /\ status = "idle" /\ exc = "none" /\ root = <<>> /\ previous = <<>>
  /\ stack = <<>> /\ included = {} /\ out = <<>> /\ edges = {}

VIdle ==
  /\ vpc = "idle" /\ shader_path = <<>> /\ full_source = <<>>
  /\ tempExists = FALSE /\ tempWritten = FALSE /\ returncode = 0
  /\ stdout = <<>> /\ success = FALSE /\ report = <<>> /\ outcome = "none"
  /\ vexc = "none"

\* fs holds one file of assorted lines, which may include b under two spellings
\* neither parse_glsl_uniform_block nor extract_uniforms has been called
UIdle ==
  /\ upc = "idle" /\ content = <<>> /\ block_name = "None" /\ glsl_lines = <<>>
  /\ line_idx = 0
  /\ parameters = <<>> /\ current_section = <<"Unknown">> /\ current_slot = 0
  /\ in_uniform_block = FALSE /\ target_block = "None" /\ origin = <<>>
XIdle == xpc = "idle" /\ source_code = <<>> /\ uniforms = <<>> /\ decls = <<>>
AIdle == UIdle /\ XIdle

TextInit ==
  \E n \in 0..MaxTextLines : \E sa \in SeqsOf(TextLines \cup SpellingLines, n) :
    fs = [f \in Files |-> CASE f = "a" -> Join(sa) [] f = "b" -> <<"x", LF>>
                             [] OTHER -> <<>>]

Init == (FsInit(LineSet, MaxTotalLines) \/ TextInit) /\ PInit /\ VIdle /\ AIdle

Next == (\E r \in Roots : TopCall(r)) \/ Step

Spec == Init /\ [][Next]_vars

\* the interpreter runs a started call to its end
InitLive == FsInit(GraphLines, MaxLiveLines) /\ PInit /\ VIdle /\ AIdle
FairSpec == InitLive /\ [][Next]_vars /\ WF_vars(Step)

TypeOK ==
  /\ status \in {"idle", "running", "returned", "raised"}
  /\ Len(stack) <= MaxDepth

\* ---------------------------------------------------------------- validate
Max(x, y) == IF x >= y THEN x ELSE y
Min(x, y) == IF x <= y THEN x ELSE y

RECURSIVE SplitLines(_)
\* str.splitlines(): the lines without their newline, no empty last line
SplitLines(text) ==
  IF text = <<>> THEN <<>>
  ELSE LET nl == FirstIndex(text, 1, {LF})
       IN IF nl = 0 THEN <<text>>
          ELSE <<SubSeq(text, 1, nl - 1)>> \o SplitLines(SubSeq(text, nl + 1, Len(text)))

RECURSIVE SplitColon(_)
\* line.split(':')
SplitColon(line) ==
  LET c == FirstIndex(line, 1, {":"})
  IN IF c = 0 THEN <<line>>
     ELSE <<SubSeq(line, 1, c - 1)>> \o SplitColon(SubSeq(line, c + 1, Len(line)))

\* "ERROR:" in line, "WARNING:" in line
Contains(line, word) ==
  \E i \in 1..(Len(line) - 1) : line[i] = word /\ line[i + 1] = ":"

NumTok == {"0", "1", "2", "3", "5"}
TokVal(t) == CASE t = "0" -> 0 [] t = "1" -> 1 [] t = "2" -> 2 [] t = "3" -> 3
               [] OTHER -> 5
\* int(field): [ok, val]; not ok stands for ValueError
IntParse(field) ==
  LET t == SelectSeq(field, LAMBDA c : c \notin Ws)
  IN IF Len(t) = 1 /\ t[1] \in NumTok THEN [ok |-> TRUE, val |-> TokVal(t[1])]
     ELSE [ok |-> FALSE, val |-> 0]

\* as HasErrors, decided by the ERROR: lines of the output
HasErrorsFromText(rc, lines) == \E i \in 1..Len(lines) : Contains(lines[i], "ERROR")
\* has_errors = result.returncode != 0
HasErrors(rc, lines) == rc # 0

\* as ContextRange, one line after the offending one
ContextRangeOneAfter(line_num, n) ==
  [start |-> Max(0, line_num - 3), end |-> Min(n, line_num + 1)]
\* range(start, end) of the context loop, 0-based, end excluded
ContextRange(line_num, n) ==
  [start |-> Max(0, line_num - 3), end |-> Min(n, line_num + 2)]

\* the lines printed around line_num: number, text, ">>" marker
Context(line_num, source_lines) ==
  LET r == ContextRange(line_num, Len(source_lines))
  IN [k \in 1..Max(0, r.end - r.start) |->
        [num |-> r.start + k, text |-> source_lines[r.start + k],
         marked |-> (r.start + k = line_num)]]

\* as LineNumField, taken from the second colon-delimited field
LineNumFieldSecond(parts) ==
  [has |-> Len(parts) >= 2, field |-> IF Len(parts) >= 2 THEN parts[2] ELSE <<>>]
\* len(parts) >= 3 and parts[2]: the field after the second colon
LineNumField(parts) ==
  [has |-> Len(parts) >= 3, field |-> IF Len(parts) >= 3 THEN parts[3] ELSE <<>>]

RECURSIVE ErrorContexts(_, _)
\* the context printing loop over result.stdout.splitlines()
ErrorContexts(lines, source) ==
  IF lines = <<>> THEN <<>>
  ELSE LET line == Head(lines)
           lf == LineNumField(SplitColon(line))
           rest == ErrorContexts(Tail(lines), source)
       IN IF Contains(line, "ERROR") /\ lf.has /\ IntParse(lf.field).ok
          THEN <<[line_num |-> IntParse(lf.field).val,
                  shown |-> Context(IntParse(lf.field).val, SplitLines(source))]>> \o rest
          ELSE rest

\* os.path.exists(shader_path)
Exists(path) == Kind(AbsPath(path)) # "missing"

VPaths == {<<"a">>, <<"zz">>}

\* validate() up to the temporary file: lines 129-141
VStart(path) ==
  /\ vpc \in {"idle", "returned"}
  /\ shader_path' = path
  /\ report' = <<>> /\ returncode' = 0 /\ stdout' = <<>>
  /\ IF ~Exists(path)
     THEN /\ vpc' = "returned" /\ success' = FALSE /\ outcome' = "no_shader"
          /\ tempWritten' = FALSE
          /\ UNCHANGED <<full_source, tempExists, vexc>>
     ELSE \E p \in {Preprocess(path, {}, 0)} :
            IF p.exc # "none"
            THEN /\ vpc' = "propagated" /\ vexc' = p.exc /\ outcome' = "exception"
                 /\ tempWritten' = FALSE
                 /\ UNCHANGED <<full_source, tempExists, success>>
            ELSE /\ full_source' = p.text
                 /\ tempExists' = TRUE /\ tempWritten' = TRUE
                 /\ vpc' = "written" /\ outcome' = "none"
                 /\ UNCHANGED <<success, vexc>>
  /\ UNCHANGED <<fs, pvars, avars>>

\* the static analysis and its prints, lines 143-152, run to the end
VAnalyze ==
  /\ vpc = "written"
  /\ vpc' = "try" /\ success' = FALSE
  /\ UNCHANGED <<fs, pvars, avars, shader_path, full_source, tempExists, tempWritten,
                 returncode, stdout, report, outcome, vexc>>

\* an exception in lines 143-152 (a print on a closed stdout, an interrupt,
\* extract_uniforms): no try block is open yet
VAnalyzeRaises ==
  /\ vpc = "written"
  /\ vpc' = "propagated" /\ vexc' = "Exception" /\ outcome' = "exception"
  /\ UNCHANGED <<fs, pvars, avars, shader_path, full_source, tempExists, tempWritten,
                 returncode, stdout, success, report>>

\* the validator ran: lines 156-201, then finally and return
VRun(rc, text) ==
  /\ vpc = "try"
  /\ returncode' = rc /\ stdout' = text
  /\ IF HasErrors(rc, SplitLines(text))
     THEN /\ report' = ErrorContexts(SplitLines(text), full_source)
          /\ success' = FALSE
     ELSE /\ report' = <<>>
          /\ success' = TRUE
  /\ tempExists' = FALSE
  /\ vpc' = "returned" /\ outcome' = "verdict"
  /\ UNCHANGED <<fs, pvars, avars, shader_path, full_source, tempWritten, vexc>>

\* subprocess.run raises FileNotFoundError: lines 203-210
VNoValidator ==
  /\ vpc = "try"
  /\ success' = FALSE
  /\ tempExists' = FALSE
  /\ vpc' = "returned" /\ outcome' = "no_validator"
  /\ UNCHANGED <<fs, pvars, avars, shader_path, full_source, tempWritten, returncode,
                 stdout, report, vexc>>

\* any other exception inside the try block: finally, then it propagates
VTryRaises ==
  /\ vpc = "try"
  /\ tempExists' = FALSE
  /\ vpc' = "propagated" /\ vexc' = "Exception" /\ outcome' = "exception"
  /\ UNCHANGED <<fs, pvars, avars, shader_path, full_source, tempWritten, returncode,
                 stdout, success, report>>

\* what the validator may print, one message per line
DiagLines ==
  { <<"ERROR", ":", " ", "0", ":", n, ":", " ", "msg", LF>> : n \in NumTok } \cup
  { <<"WARNING", ":", " ", "0", ":", "2", ":", " ", "msg", LF>>,
    <<"ERROR", ":", " ", "1", " ", "compilation", " ", "errors", LF>>,
    <<"ERROR", ":", " ", "x", ":", "y", ":", " ", "msg", LF>>,
    <<"temp_validated_shader.frag", LF>> }
ReturnCodes == {0, 1, 2}

\* the shader a is made of these lines; b is a one-line file to include
VLines == { <<"p", LF>>, <<"q", LF>>, IncludeLine(<<"b">>), IncludeLine(<<".">>) }
VFsInit ==
  \E n \in 0..MaxSrcLines : \E sa \in SeqsOf(VLines, n) :
    fs = [f \in Files |-> CASE f = "a" -> Join(sa) [] f = "b" -> <<"x", LF>>
                             [] OTHER -> <<>>]

VInit == VFsInit /\ PInit /\ VIdle /\ AIdle

VNext ==
  \/ \E path \in VPaths : VStart(path)
  \/ VAnalyze
  \/ VAnalyzeRaises
  \/ \E n \in 0..MaxDiag : \E d \in SeqsOf(DiagLines, n) : \E rc \in ReturnCodes :
        VRun(rc, Join(d))
  \/ VNoValidator
  \/ VTryRaises

SpecV == VInit /\ [][VNext]_vars

\* ------------------------------------------- parse_glsl_uniform_block

Bar == "="           \* stands for one box-drawing character U+2550
Divider == "==="     \* stands for a run of three of them
Slashes == {"/", "//", "///"}
DigitToks == {"0", "1", "2", "3", "4", "5", "6", "7", "8", "9"}
NonWord == Ws \cup Slashes \cup {Bar, Divider, Q, "(", ")", "{", "}", ";", ":", "-", ",", "[", "]"}

\* the token at position i, "" past the end
At(s, i) == IF i >= 1 /\ i <= Len(s) THEN s[i] ELSE ""
\* \w+ : one identifier, keyword or number
IsWord(t) == t # "" /\ t \notin NonWord
\* int() of a run of digits
DigitVal(t) ==
  (CHOOSE k \in 1..10 : <<"0", "1", "2", "3", "4", "5", "6", "7", "8", "9">>[k] = t) - 1

RECURSIVE SplitNewline(_)
\* content.split('\n'): the text between the newlines, the last piece too
SplitNewline(text) ==
  LET nl == FirstIndex(text, 1, {LF})
  IN IF nl = 0 THEN <<text>>
     ELSE <<SubSeq(text, 1, nl - 1)>> \o SplitNewline(SubSeq(text, nl + 1, Len(text)))

\* str.strip()
Strip(s) ==
  LET a == SkipWs(s, 1)
  IN IF a > Len(s) THEN <<>>
     ELSE LET b == CHOOSE j \in a..Len(s) :
                     s[j] \notin Ws /\ \A k \in (j + 1)..Len(s) : s[k] \in Ws
          IN SubSeq(s, a, b)

\* str.lstrip('/')
LStripSlash(s) ==
  IF \E j \in 1..Len(s) : s[j] \notin Slashes
  THEN SubSeq(s, CHOOSE j \in 1..Len(s) :
                   s[j] \notin Slashes /\ \A k \in 1..(j - 1) : s[k] \in Slashes, Len(s))
  ELSE <<>>

\* re.match(r'layout\s*\(\s*std140\s*\)\s*uniform\s+(\w+)\s*\{', stripped):
\* <<name>>, or <<>> if no match
MatchBlockStart(s) ==
  LET p1 == SkipWs(s, 2)              \* "("
      p2 == SkipWs(s, p1 + 1)         \* "std140"
      p3 == SkipWs(s, p2 + 1)         \* ")"
      p4 == SkipWs(s, p3 + 1)         \* "uniform"
      p5 == SkipWs(s, p4 + 1)         \* the name
      p6 == SkipWs(s, p5 + 1)         \* "{"
  IN IF /\ At(s, 1) = "layout" /\ At(s, p1) = "(" /\ At(s, p2) = "std140"
        /\ At(s, p3) = ")" /\ At(s, p4) = "uniform"
        /\ p5 > p4 + 1 /\ IsWord(At(s, p5)) /\ At(s, p6) = "{"
     THEN <<At(s, p5)>>
     ELSE <<>>

\* re.match(r'//\s*vec4\s+(\d+):', stripped): <<N>>, or <<>>
MatchSlotComment(s) ==
  LET p1 == SkipWs(s, 2)              \* "vec4"
      p2 == SkipWs(s, p1 + 1)         \* the number
  IN IF /\ At(s, 1) = "//" /\ At(s, p1) = "vec4"
        /\ p2 > p1 + 1 /\ At(s, p2) \in DigitToks /\ At(s, p2 + 1) = ":"
     THEN <<At(s, p2)>>
     ELSE <<>>

\* re.match(r'//\s*mat4\s*\(vec4\s*(\d+)-(\d+)\):', stripped): <<N, M>>, or <<>>
MatchMatSlotComment(s) ==
  LET p1 == SkipWs(s, 2)              \* "mat4"
      p2 == SkipWs(s, p1 + 1)         \* "("
      p3 == SkipWs(s, p2 + 2)         \* N
  IN IF /\ At(s, 1) = "//" /\ At(s, p1) = "mat4" /\ At(s, p2) = "("
        /\ At(s, p2 + 1) = "vec4" /\ At(s, p3) \in DigitToks
        /\ At(s, p3 + 1) = "-" /\ At(s, p3 + 2) \in DigitToks
        /\ At(s, p3 + 3) = ")" /\ At(s, p3 + 4) = ":"
     THEN <<At(s, p3), At(s, p3 + 2)>>
     ELSE <<>>

\* re.match(r'<type>\s+(\w+)\s*;\s*(?://\s*(.*))?', stripped) for the types
\* given; the comment is `(group or "").strip()`
MatchDecl(s, types) ==
  LET p1 == SkipWs(s, 2)              \* the name
      p2 == SkipWs(s, p1 + 1)         \* ";"
      p3 == SkipWs(s, p2 + 1)         \* "//", if any
  IN IF /\ At(s, 1) \in types /\ p1 > 2 /\ IsWord(At(s, p1)) /\ At(s, p2) = ";"
     THEN [ok |-> TRUE, type |-> At(s, 1), name |-> At(s, p1),
           comment |-> IF At(s, p3) = "//" THEN Strip(SubSeq(s, p3 + 1, Len(s)))
                       ELSE <<>>]
     ELSE [ok |-> FALSE, type |-> "", name |-> "", comment |-> <<>>]

\* `target_block is None or found_block == target_block`
EntersBlockAny(found, target) == TRUE
EntersBlock(found, target) == target = "None" \/ found = target

\* `section_text and '═' not in section_text`
ValidLabelAny(section_text) == section_text # <<>>
ValidLabel(section_text) ==
  section_text # <<>> /\ \A k \in 1..Len(section_text) : section_text[k] \notin {Bar, Divider}

\* the section after a line holding a divider, from the line that follows it
SectionAfter(section, lns, k) ==
  IF k + 1 <= Len(lns)
  THEN LET next_line == Strip(lns[k + 1])
           section_text == Strip(LStripSlash(next_line))
       IN IF At(next_line, 1) = "//" /\ ValidLabel(section_text)
          THEN section_text ELSE section
  ELSE section

\* current_slot = int(mat_slot_match.group(1))
MatSlotEnd(groups) == DigitVal(groups[2])
MatSlotStart(groups) == DigitVal(groups[1])

\* current_slot += 4
AfterMatBack(slot) == slot - 4
AfterMat(slot) == slot + 4

Parameter(slot, name, glsl_type, section, comment) ==
  [slot |-> slot, name |-> name, glsl_type |-> glsl_type, section |-> section,
   comment |-> comment]

\* lines 137-143: the locals before the loop
ParseStart ==
  /\ upc = "idle"
  /\ upc' = "loop" /\ glsl_lines' = SplitNewline(content) /\ line_idx' = 1
  /\ parameters' = <<>> /\ current_section' = <<"Unknown">> /\ current_slot' = 0
  /\ in_uniform_block' = FALSE /\ target_block' = block_name /\ origin' = <<>>
  /\ UNCHANGED <<fs, pvars, vvars, xvars, content, block_name>>

\* one line outside the block: lines 149-157
OutsideLine ==
  /\ upc = "loop" /\ line_idx <= Len(glsl_lines) /\ ~in_uniform_block
  /\ LET found == MatchBlockStart(Strip(glsl_lines[line_idx]))
     IN IF found # <<>> /\ EntersBlock(found[1], target_block)
        THEN in_uniform_block' = TRUE /\ target_block' = found[1]
        ELSE UNCHANGED <<in_uniform_block, target_block>>
  /\ line_idx' = line_idx + 1
  /\ UNCHANGED <<fs, pvars, vvars, xvars, upc, content, block_name, glsl_lines, parameters,
                 current_section, current_slot, origin>>

\* the line that closes the block: lines 161-162, then the return
BlockEnd ==
  /\ upc = "loop" /\ line_idx <= Len(glsl_lines) /\ in_uniform_block
  /\ At(Strip(glsl_lines[line_idx]), 1) = "}"
  /\ upc' = "returned"
  /\ UNCHANGED <<fs, pvars, vvars, xvars, content, block_name, glsl_lines, line_idx, parameters,
                 current_section, current_slot, in_uniform_block, target_block, origin>>

\* one line inside the block: lines 164-224
InsideLine ==
  /\ upc = "loop" /\ line_idx <= Len(glsl_lines) /\ in_uniform_block
  /\ At(Strip(glsl_lines[line_idx]), 1) # "}"
  /\ LET line == glsl_lines[line_idx]
         stripped == Strip(line)
         section == IF \E k \in 1..Len(line) : line[k] = Divider
                    THEN SectionAfter(current_section, glsl_lines, line_idx)
                    ELSE current_section
         slot_match == MatchSlotComment(stripped)
         slot1 == IF slot_match # <<>> THEN DigitVal(slot_match[1]) ELSE current_slot
         mat_slot_match == MatchMatSlotComment(stripped)
         slot2 == IF mat_slot_match # <<>> THEN MatSlotStart(mat_slot_match) ELSE slot1
         float_match == MatchDecl(stripped, {"float"})
         params1 == IF float_match.ok
                    THEN Append(parameters, Parameter(slot2, float_match.name, "float",
                                                      section, float_match.comment))
                    ELSE parameters
         mat_match == MatchDecl(stripped, {"mat4"})
         params2 == IF mat_match.ok
                    THEN Append(params1, Parameter(slot2, mat_match.name, "mat4", section,
                                                   <<"(4 slots) ">> \o mat_match.comment))
                    ELSE params1
         slot3 == IF mat_match.ok THEN AfterMat(slot2) ELSE slot2
         vec_match == MatchDecl(stripped, {"vec2", "vec3", "vec4"})
         params3 == IF vec_match.ok
                    THEN Append(params2, Parameter(slot3, vec_match.name, vec_match.type,
                                                   section, vec_match.comment))
                    ELSE params2
     IN /\ current_section' = section
        /\ current_slot' = slot3
        /\ parameters' = params3
        /\ origin' = origin \o [k \in 1..(Len(params3) - Len(parameters)) |-> line_idx]
  /\ line_idx' = line_idx + 1
  /\ UNCHANGED <<fs, pvars, vvars, xvars, upc, content, block_name, glsl_lines, in_uniform_block,
                 target_block>>

\* the loop ran out of lines: line 226
LoopEnd ==
  /\ upc = "loop" /\ line_idx > Len(glsl_lines)
  /\ upc' = "returned"
  /\ UNCHANGED <<fs, pvars, vvars, xvars, content, block_name, glsl_lines, line_idx, parameters,
                 current_section, current_slot, in_uniform_block, target_block, origin>>

\* lines of GLSL, without their newline
Header(name) == <<"layout", "(", "std140", ")", " ", "uniform", " ", name, " ", "{">>
HeaderTight(name) == <<"layout", " ", "(", " ", "std140", " ", ")", "uniform", " ", name, "{">>
CloseLine == <<"}", ";">>
SlotComment(n) == <<" ", "//", " ", "vec4", " ", n, ":", " ", "note">>
MatSlotComment(n, m) == <<"//", " ", "mat4", " ", "(", "vec4", " ", n, "-", m, ")", ":">>
Decl(type, name) == <<" ", " ", type, " ", name, ";">>
DeclNoted(type, name) == <<type, " ", name, " ", ";", " ", "//", " ", "note">>
DividerLine == <<"//", " ", Divider, Divider>>
LabelLine(text) == <<" ", "//", " ", text>>

SlotLines ==
  { SlotComment("1"), SlotComment("3"), MatSlotComment("4", "7"),
    Decl("float", "f"), DeclNoted("vec4", "v"), Decl("mat4", "m") }
SectionLines ==
  { DividerLine, LabelLine("Cam"), LabelLine("Fx"), <<"//">>, Decl("float", "f") }
StructLines ==
  { Header("A"), HeaderTight("B"), <<"}">>, Decl("float", "f") }
BlockNames == {"None", "A", "B"}

\* "\n".join(lines)
JoinLines(lns) ==
  Join([k \in 1..Len(lns) |-> IF k < Len(lns) THEN lns[k] \o <<LF>> ELSE lns[k]])

\* the text handed to the function
UContent ==
  \/ \E n \in 0..MaxBody : \E b \in SeqsOf(SlotLines, n) :
       /\ content = JoinLines(<<Header("A")>> \o b \o <<CloseLine>>)
       /\ block_name = "None"
  \/ \E n \in 0..MaxSection : \E b \in SeqsOf(SectionLines, n) :
       /\ content = JoinLines(<<DividerLine, LabelLine("Out"), Header("A")>> \o b
                              \o <<CloseLine, <<>> >>)
       /\ block_name = "A"
  \/ \E n \in 0..MaxStruct : \E b \in SeqsOf(StructLines, n) :
       /\ content = JoinLines(b)
       /\ block_name \in BlockNames

UInit ==
  /\ UContent
  /\ upc = "idle" /\ glsl_lines = <<>> /\ line_idx = 0
  /\ parameters = <<>> /\ current_section = <<"Unknown">> /\ current_slot = 0
  /\ in_uniform_block = FALSE /\ target_block = "None" /\ origin = <<>>
  /\ XIdle /\ PInit /\ VIdle
  /\ fs = [f \in Files |-> <<>>]

UNext == ParseStart \/ OutsideLine \/ BlockEnd \/ InsideLine \/ LoopEnd

SpecU == UInit /\ [][UNext]_vars

\* ------------------------------------------------------- extract_uniforms
\* ^ of a MULTILINE pattern: the start of the text or of a line
LineStart(text, p) == p = 1 \/ (p >= 2 /\ p <= Len(text) /\ text[p - 1] = LF)

\* ^\s*(layout\s*\([^)]+\)\s+)?uniform tried at p: the position of "uniform",
\* 0 if it does not match
UniformAt(text, p) ==
  LET a == SkipWs(text, p)
      b == SkipWs(text, a + 1)                  \* "("
      c == FirstIndex(text, b + 1, {")"})
      d == SkipWs(text, c + 1)                  \* "uniform", after the layout
  IN IF At(text, a) = "uniform" THEN a
     ELSE IF /\ At(text, a) = "layout" /\ At(text, b) = "(" /\ c > b + 1
             /\ d > c + 1 /\ At(text, d) = "uniform"
     THEN d
     ELSE 0

\* the flat pattern, `uniform\s+(\w+)\s+(\w+)\s*;`, tried at p
FlatMatchAt(text, p) ==
  LET u == UniformAt(text, p)
      t == SkipWs(text, u + 1)                  \* the type
      n == SkipWs(text, t + 1)                  \* the name
      e == SkipWs(text, n + 1)                  \* ";"
  IN IF /\ u > 0 /\ t > u + 1 /\ IsWord(At(text, t))
        /\ n > t + 1 /\ IsWord(At(text, n)) /\ At(text, e) = ";"
     THEN [ok |-> TRUE, type |-> At(text, t), name |-> At(text, n), end |-> e]
     ELSE [ok |-> FALSE, type |-> "", name |-> "", end |-> 0]

\* the block pattern, `uniform\s+(\w+)\s*\{([^}]+)\};`, tried at p
BlockMatchAt(text, p) ==
  LET u == UniformAt(text, p)
      t == SkipWs(text, u + 1)                  \* the block name
      b == SkipWs(text, t + 1)                  \* "{"
      c == FirstIndex(text, b + 1, {"}"})
  IN IF /\ u > 0 /\ t > u + 1 /\ IsWord(At(text, t)) /\ At(text, b) = "{"
        /\ c > b + 1 /\ At(text, c + 1) = ";"
     THEN [ok |-> TRUE, name |-> At(text, t), body |-> SubSeq(text, b + 1, c - 1),
           end |-> c + 1]
     ELSE [ok |-> FALSE, name |-> "", body |-> <<>>, end |-> 0]

RECURSIVE SplitSemicolon(_)
\* block_content.split(';')
SplitSemicolon(text) ==
  LET c == FirstIndex(text, 1, {";"})
  IN IF c = 0 THEN <<text>>
     ELSE <<SubSeq(text, 1, c - 1)>> \o SplitSemicolon(SubSeq(text, c + 1, Len(text)))

RECURSIVE SplitWs(_)
\* line.split(): the runs of text between white space
SplitWs(s) ==
  LET a == SkipWs(s, 1)
      e == FirstIndex(s, a, Ws)
  IN IF a > Len(s) THEN <<>>
     ELSE IF e = 0 THEN <<SubSeq(s, a, Len(s))>>
     ELSE <<SubSeq(s, a, e - 1)>> \o SplitWs(SubSeq(s, e, Len(s)))

FlatEntry(type, name) == [type |-> type, name |-> name, block |-> FALSE]
BlockEntry(type, name, container) ==
  [type |-> type, name |-> name, block |-> TRUE, container |-> container]

RECURSIVE FlatMatches(_, _)
\* `for match in pattern.finditer(source_code)`: the entries appended
FlatMatches(text, from) ==
  LET P == {p \in from..Len(text) : LineStart(text, p) /\ FlatMatchAt(text, p).ok}
  IN IF P = {} THEN <<>>
     ELSE LET p == CHOOSE q \in P : \A r \in P : q <= r
              m == FlatMatchAt(text, p)
          IN <<FlatEntry(<<m.type>>, <<m.name>>)>> \o FlatMatches(text, m.end + 1)

RECURSIVE Members(_, _)
\* the loop over block_content.split(';'), lines 66-71
Members(fragments, container) ==
  IF fragments = <<>> THEN <<>>
  ELSE LET line == Strip(Head(fragments))
           parts == SplitWs(line)
           rest == Members(Tail(fragments), container)
       IN IF line = <<>> \/ At(line, 1) \in Slashes \ {"/"} THEN rest
          ELSE IF Len(parts) >= 2
          THEN <<BlockEntry(parts[Len(parts) - 1], parts[Len(parts)], container)>> \o rest
          ELSE rest

RECURSIVE BlockMatches(_, _)
\* `for match in block_pattern.finditer(source_code)`: the entries appended
BlockMatches(text, from) ==
  LET P == {p \in from..Len(text) : LineStart(text, p) /\ BlockMatchAt(text, p).ok}
  IN IF P = {} THEN <<>>
     ELSE LET p == CHOOSE q \in P : \A r \in P : q <= r
              m == BlockMatchAt(text, p)
          IN Members(SplitSemicolon(m.body), m.name) \o BlockMatches(text, m.end + 1)

\* lines 52-60: the flat declarations
XFlat ==
  /\ xpc = "idle"
  /\ uniforms' = FlatMatches(source_code, 1)
  /\ xpc' = "flat"
  /\ UNCHANGED <<fs, pvars, vvars, uvars, source_code, decls>>

\* lines 62-71: the members of the blocks
XBlocks ==
  /\ xpc = "flat"
  /\ uniforms' = uniforms \o BlockMatches(source_code, 1)
  /\ xpc' = "blocks"
  /\ UNCHANGED <<fs, pvars, vvars, uvars, source_code, decls>>

\* line 73
XReturn ==
  /\ xpc = "blocks"
  /\ xpc' = "returned"
  /\ UNCHANGED <<fs, pvars, vvars, uvars, source_code, uniforms, decls>>

\* pieces of GLSL: the text, and what it declares
Flat(type, name) == [kind |-> "flat", type |-> type, name |-> name]
Block(name, body, members) ==
  [kind |-> "block", name |-> name, body |-> body, members |-> members]
Piece(text, declared) == [text |-> text, declared |-> declared]
BlockText(layout, name, body) ==
  layout \o <<"uniform", " ", name, " ", "{">> \o body \o <<"}", ";", LF>>
Std140 == <<"layout", "(", "std140", ")", " ">>
BarBody == <<LF, " ", "vec4", " ", "Baz", ";", LF, " ", "float", " ", "Qux", ";", LF>>
BlkBody == <<" ", "vec4", " ", "v", ";", " ">>
NotedBody == <<LF, " ", "vec4", " ", "a", ";", " ", "//", " ", "note", LF,
               " ", "vec4", " ", "b", ";", LF>>
EndNoteBody == <<LF, " ", "float", " ", "d", ";", LF, " ", "//", " ", "end", LF>>

Pieces ==
  { Piece(<<"uniform", " ", "float", " ", "f1", ";", LF>>, <<Flat("float", "f1")>>),
    Piece(<<LF, " ", "layout", "(", "location", "0", ")", " ", "uniform", " ", "vec3",
            " ", "f2", " ", ";", LF>>, <<Flat("vec3", "f2")>>),
    Piece(<<"uniform", " ", "float", " ", "f3", ";", " ",
            "uniform", " ", "float", " ", "f4", ";", LF>>,
          <<Flat("float", "f3"), Flat("float", "f4")>>),
    Piece(<<"//", " ", "uniform", " ", "float", " ", "no", ";", LF>>, <<>>),
    Piece(BlockText(Std140, "Bar", BarBody),
          <<Block("Bar", BarBody, <<Flat("vec4", "Baz"), Flat("float", "Qux")>>)>>),
    Piece(BlockText(<<>>, "Blk", BlkBody),
          <<Block("Blk", BlkBody, <<Flat("vec4", "v")>>)>>),
    Piece(BlockText(Std140, "Cm", NotedBody),
          <<Block("Cm", NotedBody, <<Flat("vec4", "a"), Flat("vec4", "b")>>)>>),
    Piece(BlockText(<<>>, "Co", EndNoteBody),
          <<Block("Co", EndNoteBody, <<Flat("float", "d")>>)>>) }

XInit ==
  /\ \E n \in 0..MaxPieces : \E ps \in SeqsOf(Pieces, n) :
       /\ source_code = Join([k \in 1..n |-> ps[k].text])
       /\ decls = Join([k \in 1..n |-> ps[k].declared])
  /\ xpc = "idle" /\ uniforms = <<>>
  /\ UIdle /\ PInit /\ VIdle
  /\ fs = [f \in Files |-> <<>>]

XNext == XFlat \/ XBlocks \/ XReturn

SpecX == XInit /\ [][XNext]_vars

\* --------------------------------------------------- the include graph of fs
RootFile == AbsPath(root)[1]
Directives(f) ==
  {i \in 1..Len(ReadLinesKeep(fs[f])) : MatchInclude(ReadLinesKeep(fs[f])[i]) # <<>>}
RelOf(f, i) == MatchInclude(ReadLinesKeep(fs[f])[i])
\* regular files the directives of f name (all files share one directory)
SuccFiles(f) ==
  {AbsPath(RelOf(f, i))[1] : i \in {j \in Directives(f) : Kind(AbsPath(RelOf(f, j))) = "file"}}
RECURSIVE Closure(_)
Closure(S) ==
  LET T == S \cup UNION {SuccFiles(f) : f \in S}
  IN IF T = S THEN S ELSE Closure(T)
Acyclic == \A f \in Closure({RootFile}) : f \notin Closure(SuccFiles(f))
AllRels == UNION {{RelOf(f, i) : i \in Directives(f)} : f \in Files}
RECURSIVE SumOver(_, _)
SumOver(S, rel) ==
  IF S = {} THEN 0
  ELSE LET f == CHOOSE g \in S : TRUE
       IN Cardinality({i \in Directives(f) : RelOf(f, i) = rel}) + SumOver(S \ {f}, rel)
CountSub(text, pat) ==
  Cardinality({i \in 1..(Len(text) - Len(pat) + 1) : SubSeq(text, i, i + Len(pat) - 1) = pat})
Returned == status = "returned" /\ Kind(AbsPath(root)) = "file"

\* ------------------------------------------------------------------ claims
\* C1: a started top-level call of preprocess_shader comes to an end on every
\* include graph, cyclic ones included: it returns (or is left by the
\* IsADirectoryError of C5), and never runs into the recursion limit.
C1_Terminates ==
  (status = "running") ~>
     (status = "returned" \/ (status = "raised" /\ exc = "IsADirectoryError"))
\* a call over a graph with a cycle has returned
C1_Witness == status = "returned" /\ \E e \in edges : e.onStack

\* C2: the circular-include sentinel is substituted for a directive if and
\* only if the target file is on the current call stack; in particular an
\* acyclic graph yields no such sentinel.
C2_SentinelIffOnStack ==
  \A e \in edges : Kind(e.target) = "file" => (e.kind = "skipped" <=> e.onStack)

\* C3: on an acyclic include graph the returned text holds, for every
\* directive of every file the call reaches, exactly one INCLUDE START and
\* one INCLUDE END marker naming the directive's path.
C3_MarkerPairPerEdge ==
  (Returned /\ Acyclic) =>
     \A rel \in AllRels :
        /\ CountSub(out, StartMarker(rel)) = SumOver(Closure({RootFile}), rel)
        /\ CountSub(out, EndMarker(rel)) = SumOver(Closure({RootFile}), rel)
\* an acyclic graph in which one file is included from two places
C3_Witness ==
  /\ Returned /\ Acyclic
  /\ \E e1, e2 \in edges : e1 # e2 /\ e1.target = e2.target /\ Kind(e1.target) = "file"

\* C4: every directive whose target does not exist is replaced by the
\* missing-file sentinel naming the path, every occurrence of it.
C4_MissingAlwaysReported ==
  \A e \in edges :
     Kind(e.target) = "missing" => (e.kind = "missing" /\ e.ret = NotFoundSentinel(e.path))

\* C5: preprocess_shader never raises, whatever cannot be opened.
C5_NeverRaises == status # "raised"

\* C6: a file without any directive line is returned unchanged.
C6_RoundTrip ==
  (Returned /\ Directives(RootFile) = {}) => out = fs[RootFile]
\* such a file of two lines has been resolved
C6_Witness ==
  /\ Returned /\ Directives(RootFile) = {}
  /\ Len(ReadLinesKeep(fs[RootFile])) >= 2 /\ out # <<>>

\* C7: whatever calls came before, a top-level call yields what it yields as
\* the first call, on a fresh guard set.
C7_FreshGuardPerCall ==
  /\ status = "returned" => out = Preprocess(root, {}, 0).text
  /\ status = "raised" => exc = Preprocess(root, {}, 0).exc
\* the same root resolved a second time, with directives in it
C7_Witness ==
  status = "returned" /\ previous = root /\ edges # {} /\ Head(out) # CircularTok

\* lines of the validator's output that carry "ERROR:" / "WARNING:"
ErrorLines == {i \in 1..Len(SplitLines(stdout)) : Contains(SplitLines(stdout)[i], "ERROR")}
WarningLines == {i \in 1..Len(SplitLines(stdout)) : Contains(SplitLines(stdout)[i], "WARNING")}
Verdict == vpc = "returned" /\ outcome = "verdict"

\* C8: once validate has written the temporary file, the file is gone when
\* validate is left, by return or by exception.
C8_TempRemovedOnExit ==
  (vpc \in {"returned", "propagated"} /\ tempWritten) => ~tempExists

\* C9 (as stated): with the validator found, validate returns success exactly
\* when the validator's output has no "ERROR:" line.
C9_SuccessIffNoErrorLines == Verdict => (success <=> ErrorLines = {})
\* C9 (amended): with the validator found and run, validate returns success
\* exactly when the validator's exit code is 0, whatever "ERROR:" and
\* "WARNING:" lines it printed.
C9_SuccessIffExitCodeZero == Verdict => (success <=> returncode = 0)
\* a run with warnings that succeeded
C9_Witness == Verdict /\ success /\ WarningLines # {}

\* the context block of line N that shows the lines lo..hi of the source
Window(N, lo, hi) ==
  [j \in 1..Max(0, hi - lo + 1) |->
     [num |-> lo + j - 1, text |-> SplitLines(full_source)[lo + j - 1],
      marked |-> (lo + j - 1 = N)]]
SourceLen == Len(SplitLines(full_source))

\* C10 (as stated): the context of an error at line N is the lines N-2..N+1
\* of the flattened source, clamped to 1..length, line N alone marked.
C10_WindowOneAfter ==
  \A k \in 1..Len(report) :
     report[k].shown = Window(report[k].line_num, Max(1, report[k].line_num - 2),
                              Min(SourceLen, report[k].line_num + 1))
\* C10 (amended): the context of an error at line N is the lines N-2..N+2 of
\* the flattened source, clamped to 1..length, line N alone marked.
C10_WindowTwoAfter ==
  \A k \in 1..Len(report) :
     report[k].shown = Window(report[k].line_num, Max(1, report[k].line_num - 2),
                              Min(SourceLen, report[k].line_num + 2))
\* an error in the middle of the source: two lines shown on either side
C10_Witness ==
  \E k \in 1..Len(report) :
     /\ report[k].line_num >= 3 /\ report[k].line_num + 2 <= SourceLen
     /\ Len(report[k].shown) = 5

\* the integers found in the k-th colon-delimited field of the "ERROR:" lines
\* that have at least k fields, in output order
FieldNums(k) ==
  LET q == SelectSeq(SplitLines(stdout),
                     LAMBDA l : /\ Contains(l, "ERROR")
                                /\ Len(SplitColon(l)) >= k
                                /\ IntParse(SplitColon(l)[k]).ok)
  IN [j \in 1..Len(q) |-> IntParse(SplitColon(q[j])[k]).val]
ReportNums == [j \in 1..Len(report) |-> report[j].line_num]

SlotOf(l) ==
  LET s == Strip(l)
  IN IF Len(s) >= 6 /\ SubSeq(s, 1, 4) = <<"//", " ", "vec4", " ">> /\ s[6] = ":"
     THEN <<DigitVal(s[5])>>
     ELSE IF Len(s) = 12 /\ SubSeq(s, 1, 7) = <<"//", " ", "mat4", " ", "(", "vec4", " ">>
     THEN <<DigitVal(s[8])>>
     ELSE <<>>
IsMatSlotLine(l) == At(Strip(l), 3) = "mat4" /\ SlotOf(l) # <<>>
IsDeclLine(l) == At(Strip(l), 1) \in {"float", "vec2", "vec3", "vec4", "mat4"}
\* the block a header line opens, "" for any other line
HeaderName(l) ==
  IF \E n \in {"A", "B"} : Strip(l) \in {Header(n), HeaderTight(n)}
  THEN CHOOSE n \in {"A", "B"} : Strip(l) \in {Header(n), HeaderTight(n)}
  ELSE ""
\* the first header of the block asked for, 0 if there is none
FirstHeader ==
  LET H == {j \in 1..Len(glsl_lines) :
              /\ HeaderName(glsl_lines[j]) # ""
              /\ block_name \in {"None", HeaderName(glsl_lines[j])}}
  IN IF H = {} THEN 0 ELSE CHOOSE j \in H : \A h \in H : j <= h
\* the first line after that header that begins with "}", Len+1 if none
FirstClose ==
  LET C == {j \in (FirstHeader + 1)..Len(glsl_lines) : At(Strip(glsl_lines[j]), 1) = "}"}
  IN IF C = {} THEN Len(glsl_lines) + 1 ELSE CHOOSE j \in C : \A c \in C : j <= c
\* no slot comment on the lines strictly between a and b
NoSlotCommentBetween(a, b) == \A j \in (a + 1)..(b - 1) : SlotOf(glsl_lines[j]) = <<>>
\* parameters k and k+1 with no slot comment between their lines
Consecutive(k) ==
  k \in 1..(Len(parameters) - 1) /\ NoSlotCommentBetween(origin[k], origin[k + 1])

\* C12: a declaration on the line after a slot comment `// vec4 N:` or
\* `// mat4 (vec4 N-M):` has slot N, also when a mat4 advanced the counter
\* before; the declaration that follows such a mat4 with no slot comment
\* between has slot N+4.
C12_SlotComments ==
  \A k \in 1..Len(parameters) :
     LET prev == glsl_lines[origin[k] - 1]
     IN /\ SlotOf(prev) # <<>> => parameters[k].slot = SlotOf(prev)[1]
        /\ ( /\ IsMatSlotLine(prev) /\ parameters[k].glsl_type = "mat4"
             /\ Consecutive(k) /\ parameters[k + 1].glsl_type # "mat4" )
           => parameters[k + 1].slot = SlotOf(prev)[1] + 4
\* `// mat4 (vec4 4-7):`, a mat4 at slot 4, then a declaration at slot 8
C12_Witness ==
  /\ upc = "returned"
  /\ \E k \in 1..(Len(parameters) - 1) :
       /\ IsMatSlotLine(glsl_lines[origin[k] - 1])
       /\ parameters[k].glsl_type = "mat4" /\ parameters[k].slot = 4
       /\ Consecutive(k) /\ parameters[k + 1].slot = 8

\* C13 (as stated): the slots of the returned parameters never decrease in
\* output order.
C13_NonDecreasing ==
  \A k \in 1..(Len(parameters) - 1) : parameters[k].slot <= parameters[k + 1].slot
\* C13 (amended): the slots never decrease from one parameter to the next
\* when no slot comment lies between their declarations.
C13_NonDecreasingBetweenComments ==
  \A k \in 1..(Len(parameters) - 1) :
     Consecutive(k) => parameters[k].slot <= parameters[k + 1].slot
\* a mat4 and the declaration after it, and a slot comment that steps back
C13_Witness ==
  /\ upc = "returned"
  /\ \E k \in 1..(Len(parameters) - 1) :
       Consecutive(k) /\ parameters[k].slot < parameters[k + 1].slot
  /\ \E k \in 1..(Len(parameters) - 1) : parameters[k].slot > parameters[k + 1].slot

\* slots a member of this type takes
SlotSize(glsl_type) == IF glsl_type = "mat4" THEN 4 ELSE 1
\* C14: with no slot comment between two declarations, the second one's slot
\* is the first one's plus the size of the first: 1 after float and vec, 4
\* after mat4.
C14_AdvancedBySize ==
  \A k \in 1..(Len(parameters) - 1) :
     Consecutive(k) =>
        parameters[k + 1].slot = parameters[k].slot + SlotSize(parameters[k].glsl_type)

\* the declaration lines strictly between the header and the closing line
BlockDeclLines ==
  IF FirstHeader = 0 THEN {}
  ELSE {j \in (FirstHeader + 1)..(FirstClose - 1) : IsDeclLine(glsl_lines[j])}
\* C15: every parameter comes from a line strictly between the first header
\* of the block asked for (the first header at all when none is asked for)
\* and the first following line that begins with "}", and at the return every
\* declaration line in between has given its parameter.
C15_FirstMatchedBlockOnly ==
  LET B == BlockDeclLines
  IN /\ \A k \in 1..Len(origin) : origin[k] \in B
     /\ upc = "returned" =>
          /\ Len(origin) = Cardinality(B)
          /\ \A k \in 1..(Len(origin) - 1) : origin[k] < origin[k + 1]
\* block B asked for and found behind block A, whose member is left out
C15_Witness ==
  /\ upc = "returned" /\ block_name = "B" /\ Len(parameters) = 1
  /\ \E j \in 1..(FirstHeader - 1) :
       HeaderName(glsl_lines[j]) = "A" /\ IsDeclLine(glsl_lines[j + 1])

\* dividers inside the block, before line o, with a label on the next line
LabelledDividers(o) ==
  {j \in (FirstHeader + 1)..(o - 1) :
     /\ \E k \in 1..Len(glsl_lines[j]) : glsl_lines[j][k] = Divider
     /\ \E t \in {"Cam", "Fx", "Out"} : glsl_lines[j + 1] = LabelLine(t)}
SectionAt(o) ==
  LET D == LabelledDividers(o)
  IN IF D = {} THEN <<"Unknown">>
     ELSE LET j == CHOOSE d \in D : \A e \in D : e <= d
          IN <<glsl_lines[j + 1][Len(glsl_lines[j + 1])]>>
\* C18: the section of every parameter is the label under the most recent
\* divider inside the block that has a label line right after it, "Unknown"
\* if there is none before the declaration.
C18_SectionFromLastLabel ==
  \A k \in 1..Len(parameters) : parameters[k].section = SectionAt(origin[k])
\* two labelled dividers, then a declaration under the second label
C18_Witness ==
  /\ upc = "returned"
  /\ \E k \in 1..Len(parameters) :
       /\ parameters[k].section = <<"Fx">>
       /\ \E j \in 1..origin[k] : glsl_lines[j] = LabelLine("Cam") /\ j > FirstHeader

\* ---- what the text given to extract_uniforms declares
RECURSIVE DeclaredFlat(_)
\* the flat declarations, in source order
DeclaredFlat(ds) ==
  IF ds = <<>> THEN <<>>
  ELSE (IF Head(ds).kind = "flat"
        THEN <<FlatEntry(<<Head(ds).type>>, <<Head(ds).name>>)>> ELSE <<>>)
       \o DeclaredFlat(Tail(ds))
RECURSIVE DeclaredMembers(_)
\* the members of the blocks, blocks in source order, members in body order
DeclaredMembers(ds) ==
  IF ds = <<>> THEN <<>>
  ELSE (IF Head(ds).kind = "block"
        THEN [k \in 1..Len(Head(ds).members) |->
                BlockEntry(<<Head(ds).members[k].type>>, <<Head(ds).members[k].name>>,
                           Head(ds).name)]
        ELSE <<>>)
       \o DeclaredMembers(Tail(ds))

\* C16: extract_uniforms returns one non-block entry per flat declaration, in
\* source order, followed by the members of the blocks, blocks in source order
\* and members in body order, each flagged as block member with its block's
\* name as container.
C16_FlatThenBlocks ==
  xpc = "returned" => uniforms = DeclaredFlat(decls) \o DeclaredMembers(decls)

\* a fragment that holds nothing but comment lines and blank lines
CommentOnly(fragment) ==
  \A k \in 1..Len(SplitNewline(fragment)) :
     LET l == Strip(SplitNewline(fragment)[k])
     IN l = <<>> \/ At(l, 1) = "//"
RECURSIVE FragmentMembers(_, _)
\* one member per fragment that is neither empty nor comment-only: its last
\* two tokens
FragmentMembers(fragments, container) ==
  IF fragments = <<>> THEN <<>>
  ELSE LET parts == SplitWs(Head(fragments))
       IN (IF Len(parts) >= 2 /\ ~CommentOnly(Head(fragments))
           THEN <<BlockEntry(parts[Len(parts) - 1], parts[Len(parts)], container)>>
           ELSE <<>>)
          \o FragmentMembers(Tail(fragments), container)
RECURSIVE BodyMembers(_)
BodyMembers(ds) ==
  IF ds = <<>> THEN <<>>
  ELSE (IF Head(ds).kind = "block"
        THEN FragmentMembers(SplitSemicolon(Head(ds).body), Head(ds).name) ELSE <<>>)
       \o BodyMembers(Tail(ds))

\* C17: the block entries returned are, block by block, one member for every
\* fragment of the body split on ";" that is neither empty nor comment-only,
\* typed and named by the fragment's last two tokens; a member on the line
\* after a trailing "//" comment is among them.
C17_EveryFragmentEmitted ==
  xpc = "returned" => SelectSeq(uniforms, LAMBDA e : e.block) = BodyMembers(decls)

====
